---- MODULE Spec2Model ----
\* Push-to-talk dictation orchestrator (src/main.js): the hotkey-driven
\* recording state machine, the stop-timer debounce, the framed writes to the
\* speech-recognition worker, the worker's respawn cycle, the routing of the
\* worker's output lines to text injection and the indicator's staged hide.
\*
\* Every callback of the event loop (interval tick, timer, IPC message, child
\* process event, tray click) is one action: callbacks never interleave with
\* each other inside the single-threaded loop.  Time is not modelled: a timer
\* that is pending may fire at any later step.
EXTENDS Integers, Sequences, FiniteSets, TLC

\* ---------------------------------------------------------------- bounds
\* Audio chunks the capture source posts during one recording.
MaxChunks == 2
\* Indicator timers (150 ms and 120 ms) pending at once.
MaxTimers == 2
\* Symbols in one read event of the worker's stdout (line-routing runs).
MaxData == 3
\* Symbols in the worker's whole output stream (line-routing runs).
MaxStream == 3
\* Largest magnitude of a float sample, in halves (conversion runs).
MaxAmplitude == 4
\* Samples in one chunk handed to float32ToInt16 (conversion runs).
MaxFrame == 2

\* ------------------------------------------------------------- constants
IDLE == "IDLE"
RECORDING == "RECORDING"
STOPPING == "STOPPING"
FINALIZING == "FINALIZING"
States == {IDLE, RECORDING, STOPPING, FINALIZING}

\* Frame tags of the worker protocol.
TAG_START == 1
TAG_AUDIO == 2
TAG_END == 3

\* Text is a sequence of symbols.  A symbol stands for a piece of a string;
\* the pieces have disjoint characters, so two symbol sequences are equal
\* exactly when the strings they spell are equal.
LF == "LF"
CR == "CR"
SP == "SP"
Symbols == {"a", SP, CR, LF, "TRANSCRIBED_", "FINISH"}
Whitespace == {SP, CR, LF}
TRANSCRIBED_FINISH == <<"TRANSCRIBED_", "FINISH">>

VARIABLES
    currentState,       \* one of States
    ctrlDown, winDown,  \* the last key sample
    stopTimer,          \* TRUE while the 30 ms stop timer is pending
    isPaused,
    asrProcess,         \* the handle: "null" or "live"
    procAlive,          \* child processes whose 'close' has not been delivered
    respawnTimers,      \* pending setTimeout(startASRWorker, 2000)
    everSpawned,        \* a worker was spawned at least once
    workerIn,           \* frames written to the stdin of the current child,
                        \* from its last START frame on
    indicatorVisible,
    firstRunShown,
    fadeTimers,         \* pending 150 ms timers of hideIndicator
    hideTimers,         \* pending 120 ms timers of hideIndicator
    clipboard,          \* text last written to the clipboard
    appFocused,         \* a window of this application has focus
    lastSignal,         \* history: the control frame signalled last, or "NONE"
    chunks,             \* history: chunks that arrived in state RECORDING
                        \* since startRecording ran last
    lastEvent,          \* history: the callback that ran last
    stepTrace,          \* history: values currentState took in that callback
    stepOut,            \* history: messages that callback sent, in order
    stepInjected,       \* history: texts that callback passed to injectText
    stream,             \* history: symbols the worker wrote to stdout
    injected,           \* history: texts passed to injectText over the run
    lastCall            \* history: the last direct call of transition or
                        \* float32ToInt16, its arguments and its result

vars == <<currentState, ctrlDown, winDown, stopTimer, isPaused, asrProcess,
          procAlive, respawnTimers, everSpawned, workerIn, indicatorVisible,
          firstRunShown, fadeTimers, hideTimers, clipboard, appFocused,
          lastSignal, chunks, lastEvent, stepTrace, stepOut, stepInjected,
          stream, injected, lastCall>>

\* The program state a callback starts from, with empty per-callback history.
St ==
    [currentState |-> currentState,
     ctrlDown |-> ctrlDown, winDown |-> winDown, stopTimer |-> stopTimer,
     isPaused |-> isPaused,
     asrProcess |-> asrProcess, procAlive |-> procAlive,
     respawnTimers |-> respawnTimers, everSpawned |-> everSpawned,
     workerIn |-> workerIn, indicatorVisible |-> indicatorVisible,
     firstRunShown |-> firstRunShown, fadeTimers |-> fadeTimers,
     hideTimers |-> hideTimers, clipboard |-> clipboard,
     appFocused |-> appFocused, lastSignal |-> lastSignal, chunks |-> chunks,
     trace |-> <<>>, out |-> <<>>, inj |-> <<>>]

\* The state a callback leaves behind.
Commit(s, event) ==
    /\ currentState' = s.currentState
    /\ ctrlDown' = s.ctrlDown
    /\ winDown' = s.winDown
    /\ stopTimer' = s.stopTimer
    /\ isPaused' = s.isPaused
    /\ asrProcess' = s.asrProcess
    /\ procAlive' = s.procAlive
    /\ respawnTimers' = s.respawnTimers
    /\ everSpawned' = s.everSpawned
    /\ workerIn' = s.workerIn
    /\ indicatorVisible' = s.indicatorVisible
    /\ firstRunShown' = s.firstRunShown
    /\ fadeTimers' = s.fadeTimers
    /\ hideTimers' = s.hideTimers
    /\ clipboard' = s.clipboard
    /\ appFocused' = s.appFocused
    /\ lastSignal' = s.lastSignal
    /\ chunks' = s.chunks
    /\ lastEvent' = event
    /\ stepTrace' = s.trace
    /\ stepOut' = s.out
    /\ stepInjected' = s.inj

Send(s, msg) == [s EXCEPT !.out = Append(@, msg)]

Has(seq, x) == \E i \in 1..Len(seq) : seq[i] = x
Count(seq, x) == Cardinality({i \in 1..Len(seq) : seq[i] = x})

\* ------------------------------------------------------ state transitions
allowed ==
    [st \in States |->
        CASE st = IDLE -> {RECORDING}
          [] st = RECORDING -> {STOPPING}
          [] st = STOPPING -> {FINALIZING}
          [] st = FINALIZING -> {IDLE}]

\* Mutant: every request is granted.
transition_unchecked(s, newState) ==
    IF s.currentState = newState THEN s
    ELSE [s EXCEPT !.currentState = newState, !.trace = Append(@, newState)]

transition(s, newState) ==
    IF s.currentState = newState THEN s
    ELSE IF newState \notin allowed[s.currentState] THEN s
    ELSE [s EXCEPT !.currentState = newState, !.trace = Append(@, newState)]

\* -------------------------------------------------------------- utilities
\* Float samples are counted in halves: 2 is 1.0, -3 is -1.5.
Clip(x) == IF x < -2 THEN -2 ELSE IF x > 2 THEN 2 ELSE x

\* One sample, in halves, to a 16-bit integer: negative samples are scaled by
\* 0x8000 (exact), the others by 0x7FFF, and writeInt16LE drops the fraction.
\* Mutant: both signs are scaled by 0x8000.
ToInt16_symmetric(x) == Clip(x) * 16384

ToInt16(x) ==
    LET c == Clip(x)
    IN IF c < 0 THEN c * 16384 ELSE (c * 32767) \div 2

float32ToInt16(floatArray) ==
    [i \in 1..Len(floatArray) |-> ToInt16(floatArray[i])]

\* ------------------------------------------------------------- indicator
showIndicator(s) ==
    LET s1 == Send(s, "set-state:listening")
        s2 == IF ~s1.indicatorVisible
              THEN Send([s1 EXCEPT !.indicatorVisible = TRUE], "showInactive")
              ELSE s1
    IN IF ~s2.firstRunShown
       THEN Send([s2 EXCEPT !.firstRunShown = TRUE], "show-hint")
       ELSE s2

hideIndicator(s, immediate) ==
    IF ~s.indicatorVisible THEN s
    ELSE IF immediate
    THEN Send([s EXCEPT !.indicatorVisible = FALSE], "hide")
    ELSE [Send(s, "set-state:stopping") EXCEPT !.fadeTimers = @ + 1]

\* ------------------------------------------------------- paste injection
RECURSIVE TrimLeft(_)
TrimLeft(t) ==
    IF t # <<>> /\ Head(t) \in Whitespace THEN TrimLeft(Tail(t)) ELSE t

RECURSIVE TrimRight(_)
TrimRight(t) ==
    IF t # <<>> /\ t[Len(t)] \in Whitespace
    THEN TrimRight(SubSeq(t, 1, Len(t) - 1))
    ELSE t

Trim(t) == TrimRight(TrimLeft(t))

\* Mutant: the paused flag is not consulted.
injectText_noPauseCheck(s, text) ==
    LET s0 == [s EXCEPT !.inj = Append(@, text)]
    IN IF Trim(text) = <<>> THEN s0
       ELSE LET s1 == hideIndicator(s0, TRUE)
                s2 == [s1 EXCEPT !.clipboard = Trim(text), !.appFocused = FALSE]
            IN Send(s2, "paste")

injectText(s, text) ==
    LET s0 == [s EXCEPT !.inj = Append(@, text)]
    IN IF s0.isPaused THEN s0
       ELSE IF Trim(text) = <<>> THEN s0
       ELSE LET s1 == hideIndicator(s0, TRUE)
                s2 == [s1 EXCEPT !.clipboard = Trim(text), !.appFocused = FALSE]
            IN Send(s2, "paste")

\* ------------------------------------------------------------ ASR worker
Frame(tag, payload, seq) ==
    [tag |-> tag, len |-> 2 * Len(payload), payload |-> payload, seq |-> seq]

startASRWorker(s, pythonFound, spawnThrows) ==
    IF ~pythonFound THEN s
    ELSE IF spawnThrows THEN [s EXCEPT !.asrProcess = "null"]
    ELSE [s EXCEPT !.asrProcess = "live", !.procAlive = @ + 1,
                   !.workerIn = <<>>, !.everSpawned = TRUE]

\* d.toString().split(/\r?\n/): the lines of one read event.
RECURSIVE SplitLines(_, _)
SplitLines(d, line) ==
    IF d = <<>> THEN <<line>>
    ELSE IF Head(d) = LF THEN <<line>> \o SplitLines(Tail(d), <<>>)
    ELSE IF Head(d) = CR /\ Len(d) >= 2 /\ d[2] = LF
    THEN <<line>> \o SplitLines(Tail(Tail(d)), <<>>)
    ELSE SplitLines(Tail(d), Append(line, Head(d)))

\* The body of the loop over the lines of a read event.
onLine(s, line) ==
    LET text == Trim(line)
    IN IF text = TRANSCRIBED_FINISH THEN s
       ELSE IF text # <<>>
       THEN injectText(s, text)
       ELSE s

RECURSIVE onLines(_, _)
onLines(s, lines) ==
    IF lines = <<>> THEN s ELSE onLines(onLine(s, Head(lines)), Tail(lines))

onStdoutData(s, d) == onLines(s, SplitLines(d, <<>>))

\* Mutant: the handle is dropped but no respawn is scheduled.
onClose_noRespawn(s) ==
    [s EXCEPT !.asrProcess = "null", !.procAlive = @ - 1]

onClose(s) ==
    [s EXCEPT !.asrProcess = "null", !.procAlive = @ - 1,
              !.respawnTimers = @ + 1]

onError(s) == [s EXCEPT !.asrProcess = "null"]

\* Mutant: every chunk is written twice.
sendAudioToWorker_twice(s, buffer) ==
    IF s.asrProcess # "live" THEN s
    ELSE Send([s EXCEPT !.workerIn =
                            @ \o << Frame(TAG_AUDIO, buffer, s.chunks),
                                    Frame(TAG_AUDIO, buffer, s.chunks) >>],
              "write:AUDIO")

sendAudioToWorker(s, buffer) ==
    IF s.asrProcess # "live" THEN s
    ELSE Send([s EXCEPT !.workerIn =
                            Append(@, Frame(TAG_AUDIO, buffer, s.chunks))],
              "write:AUDIO")

\* Mutant: START is written without looking at the handle.
signalStartToWorker_noGuard(s) ==
    Send([s EXCEPT !.lastSignal = "START",
                   !.out = Append(@, "signal:START"),
                   !.workerIn = <<Frame(TAG_START, <<>>, 0)>>],
         "write:START")

signalStartToWorker(s) ==
    LET s1 == Send([s EXCEPT !.lastSignal = "START"], "signal:START")
    IN IF s1.asrProcess = "live"
       THEN Send([s1 EXCEPT !.workerIn = <<Frame(TAG_START, <<>>, 0)>>],
                 "write:START")
       ELSE s1

signalEndToWorker(s) ==
    LET s1 == Send([s EXCEPT !.lastSignal = "END"], "signal:END")
    IN IF s1.asrProcess = "live"
       THEN Send([s1 EXCEPT !.workerIn = Append(@, Frame(TAG_END, <<>>, 0))],
                 "write:END")
       ELSE s1

\* ------------------------------------------------------------ input logic
resetToIdle(s) == transition(s, IDLE)

\* Mutant: the return to IDLE is forgotten.
finalizeRecording_noReset(s) == transition(s, FINALIZING)

finalizeRecording(s) == resetToIdle(transition(s, FINALIZING))

startRecording(s) ==
    LET s1 == [s EXCEPT !.chunks = 0]
        s2 == transition(s1, RECORDING)
        s3 == showIndicator(s2)
        s4 == signalStartToWorker(s3)
    IN Send(s4, "start-capture")

\* Mutant: the stop leaves the state in STOPPING, as if finalisation waited
\* for the worker's transcript.
stopRecording_noFinalize(s) ==
    LET s2 == hideIndicator(s, FALSE)
        s3 == transition(s2, STOPPING)
        s4 == Send(s3, "stop-capture")
    IN signalEndToWorker(s4)

stopRecording(s) ==
    LET s2 == hideIndicator(s, FALSE)
        s3 == transition(s2, STOPPING)
        s4 == Send(s3, "stop-capture")
        s5 == signalEndToWorker(s4)
    IN finalizeRecording(s5)

\* Mutant: a re-engage leaves the pending stop timer alone.
checkInputState_noCancel(s) ==
    IF s.isPaused THEN s
    ELSE IF s.ctrlDown /\ s.winDown
    THEN IF s.currentState = IDLE THEN startRecording(s) ELSE s
    ELSE IF s.currentState = RECORDING /\ ~s.stopTimer
    THEN Send([s EXCEPT !.stopTimer = TRUE], "setTimeout")
    ELSE s

\* Mutant: the pause check is missing.
checkInputState_noPause(s) ==
    IF s.ctrlDown /\ s.winDown
    THEN LET s1 == IF s.stopTimer
                   THEN Send([s EXCEPT !.stopTimer = FALSE], "clearTimeout")
                   ELSE s
         IN IF s1.currentState = IDLE THEN startRecording(s1) ELSE s1
    ELSE IF s.currentState = RECORDING /\ ~s.stopTimer
    THEN Send([s EXCEPT !.stopTimer = TRUE], "setTimeout")
    ELSE s

\* Mutant: held keys start a recording whatever the state.
checkInputState_alwaysStart(s) ==
    IF s.isPaused THEN s
    ELSE IF s.ctrlDown /\ s.winDown
    THEN LET s1 == IF s.stopTimer
                   THEN Send([s EXCEPT !.stopTimer = FALSE], "clearTimeout")
                   ELSE s
         IN startRecording(s1)
    ELSE IF s.currentState = RECORDING /\ ~s.stopTimer
    THEN Send([s EXCEPT !.stopTimer = TRUE], "setTimeout")
    ELSE s

\* Mutant: the pause check gates only the start of a recording.
checkInputState_pauseGatesStart(s) ==
    IF s.ctrlDown /\ s.winDown
    THEN LET s1 == IF s.stopTimer
                   THEN Send([s EXCEPT !.stopTimer = FALSE], "clearTimeout")
                   ELSE s
         IN IF s1.currentState = IDLE /\ ~s1.isPaused
            THEN startRecording(s1)
            ELSE s1
    ELSE IF s.currentState = RECORDING /\ ~s.stopTimer
    THEN Send([s EXCEPT !.stopTimer = TRUE], "setTimeout")
    ELSE s

\* Mutant: a released sample arms a stop timer whether or not one is pending.
checkInputState_rearm(s) ==
    IF s.isPaused THEN s
    ELSE IF s.ctrlDown /\ s.winDown
    THEN LET s1 == IF s.stopTimer
                   THEN Send([s EXCEPT !.stopTimer = FALSE], "clearTimeout")
                   ELSE s
         IN IF s1.currentState = IDLE THEN startRecording(s1) ELSE s1
    ELSE IF s.currentState = RECORDING
    THEN Send([s EXCEPT !.stopTimer = TRUE], "setTimeout")
    ELSE s

checkInputState(s) ==
    IF s.isPaused THEN s
    ELSE IF s.ctrlDown /\ s.winDown
    THEN LET s1 == IF s.stopTimer
                   THEN Send([s EXCEPT !.stopTimer = FALSE], "clearTimeout")
                   ELSE s
         IN IF s1.currentState = IDLE THEN startRecording(s1) ELSE s1
    ELSE IF s.currentState = RECORDING /\ ~s.stopTimer
    THEN Send([s EXCEPT !.stopTimer = TRUE], "setTimeout")
    ELSE s

\* Mutant: the stop timer's callback does nothing while paused.
onStopTimer_pauseAware(s) ==
    IF s.isPaused
    THEN [s EXCEPT !.stopTimer = FALSE]
    ELSE [stopRecording(s) EXCEPT !.stopTimer = FALSE]

onStopTimer(s) == [stopRecording(s) EXCEPT !.stopTimer = FALSE]

\* Mutant: chunks are forwarded whatever the state.
onAudioData_anyState(s, data) ==
    sendAudioToWorker([s EXCEPT !.chunks = @ + 1], float32ToInt16(data))

onAudioData(s, data) ==
    IF s.currentState = RECORDING
    THEN sendAudioToWorker([s EXCEPT !.chunks = @ + 1], float32ToInt16(data))
    ELSE s

onCaptureError(s) ==
    IF s.currentState # IDLE THEN resetToIdle(s) ELSE s

onKeyTick(s, ctrl, win) ==
    checkInputState([s EXCEPT !.ctrlDown = ctrl, !.winDown = win])

\* Mutant: the 150 ms callback does not look at the indicator's visibility.
onFadeTimer_always(s) ==
    [Send([s EXCEPT !.fadeTimers = @ - 1], "fade-out")
        EXCEPT !.hideTimers = @ + 1]

onFadeTimer(s) ==
    LET s1 == [s EXCEPT !.fadeTimers = @ - 1]
    IN IF s1.indicatorVisible
       THEN [Send(s1, "fade-out") EXCEPT !.hideTimers = @ + 1]
       ELSE s1

onHideTimer(s) ==
    Send([s EXCEPT !.hideTimers = @ - 1, !.indicatorVisible = FALSE], "hide")

onPauseClick(s) == [s EXCEPT !.isPaused = ~@]

\* ------------------------------------------------------------------ init
\* After app.whenReady: settings loaded (paused either way), the first-run
\* marker present or not, the windows created hidden, startASRWorker called
\* once (interpreter found and spawned, or not found), the key poll running.
Init ==
    /\ currentState = IDLE
    /\ ctrlDown = FALSE
    /\ winDown = FALSE
    /\ stopTimer = FALSE
    /\ isPaused \in BOOLEAN
    /\ \E found \in BOOLEAN :
          /\ asrProcess = IF found THEN "live" ELSE "null"
          /\ procAlive = IF found THEN 1 ELSE 0
          /\ everSpawned = found
    /\ respawnTimers = 0
    /\ workerIn = <<>>
    /\ indicatorVisible = FALSE
    /\ firstRunShown \in BOOLEAN
    /\ fadeTimers = 0
    /\ hideTimers = 0
    /\ clipboard = <<>>
    /\ appFocused = FALSE
    /\ lastSignal = "NONE"
    /\ chunks = 0
    /\ lastEvent = "init"
    /\ stepTrace = <<>>
    /\ stepOut = <<>>
    /\ stepInjected = <<>>
    /\ stream = <<>>
    /\ injected = <<>>
    /\ lastCall = [fn |-> "none", arg |-> <<>>, result |-> <<>>]

\* --------------------------------------------------------------- actions
KeepStream == UNCHANGED <<stream, injected, lastCall>>

\* The 20 ms poll: sample both keys, then checkInputState.
KeyTick ==
    \E ctrl \in BOOLEAN, win \in BOOLEAN :
        /\ (ctrl /\ win /\ ~isPaused /\ currentState = IDLE)
              => fadeTimers + hideTimers < MaxTimers
        /\ Commit(onKeyTick(St, ctrl, win), "sample")
        /\ KeepStream

\* The stop timer fires.
StopTimerFire ==
    /\ stopTimer
    /\ Commit(onStopTimer(St), "stop-timer")
    /\ KeepStream

\* ipcMain 'audio-data'.  The k-th chunk of a recording carries one of three
\* sample vectors, so that consecutive chunks differ.
AudioInputs(k) ==
    {<< <<2, -2>>, <<3, -3, 1>>, <<0, -1>> >>[(k % 3) + 1]}

AudioData ==
    \E data \in AudioInputs(chunks) :
        /\ currentState = RECORDING => chunks < MaxChunks
        /\ Commit(onAudioData(St, data), "audio-data")
        /\ KeepStream

\* ipcMain 'capture-error'.
CaptureError ==
    /\ Commit(onCaptureError(St), "capture-error")
    /\ KeepStream

\* Tray menu: pause / resume.
PauseClick ==
    /\ Commit(onPauseClick(St), "pause-click")
    /\ KeepStream

\* A window of the application (the settings window) takes focus.  Focus is
\* read by nothing but injectText's blur, so Next leaves this action out.
FocusApp ==
    /\ ~appFocused
    /\ Commit([St EXCEPT !.appFocused = TRUE], "focus")
    /\ KeepStream

\* The child process closes.
WorkerClose ==
    /\ procAlive > 0
    /\ Commit(onClose(St), "close")
    /\ KeepStream

\* The child process reports an error.
WorkerError ==
    /\ procAlive > 0
    /\ asrProcess = "live"
    /\ Commit(onError(St), "error")
    /\ KeepStream

\* The 2 s respawn timer fires: startASRWorker runs again.
RespawnFire ==
    \E pythonFound \in BOOLEAN, spawnThrows \in BOOLEAN :
        /\ respawnTimers > 0
        /\ Commit(startASRWorker([St EXCEPT !.respawnTimers = @ - 1],
                                 pythonFound, spawnThrows), "respawn")
        /\ KeepStream

\* One read event of the worker's stdout.
StdoutInputs ==
    {<<"a", LF>>, <<SP, LF>>, <<"TRANSCRIBED_", "FINISH", LF>>}

StdoutData(d) ==
    /\ procAlive > 0
    /\ Commit(onStdoutData(St, d), "stdout")

WorkerOutput ==
    \E d \in StdoutInputs :
        /\ StdoutData(d)
        /\ KeepStream

\* The indicator's 150 ms and 120 ms timers.
FadeTimerFire ==
    /\ fadeTimers > 0
    /\ Commit(onFadeTimer(St), "fade-timer")
    /\ KeepStream

HideTimerFire ==
    /\ hideTimers > 0
    /\ Commit(onHideTimer(St), "hide-timer")
    /\ KeepStream

Next ==
    \/ KeyTick
    \/ StopTimerFire
    \/ AudioData
    \/ CaptureError
    \/ PauseClick
    \/ WorkerClose
    \/ WorkerError
    \/ RespawnFire
    \/ WorkerOutput
    \/ FadeTimerFire
    \/ HideTimerFire

Spec == Init /\ [][Next]_vars

\* The state machine under its own events (key samples, stop timer, pause,
\* capture errors, the indicator's timers), with the fairness the event loop
\* gives: the poll interval keeps ticking and a pending stop timer fires.
NextStateMachine ==
    \/ KeyTick
    \/ StopTimerFire
    \/ CaptureError
    \/ PauseClick
    \/ FadeTimerFire
    \/ HideTimerFire

FairSpec ==
    /\ Init
    /\ [][NextStateMachine]_vars
    /\ WF_vars(KeyTick)
    /\ WF_vars(StopTimerFire)

\* Line routing: the worker's stdout is drawn symbol by symbol and cut into
\* read events at every place, while key samples and pause clicks change the
\* recording state under it.
SeqsUpTo(S, n) == UNION {[1..k -> S] : k \in 1..n}

ReadEvent ==
    \E d \in SeqsUpTo(Symbols, MaxData) :
        /\ Len(stream) + Len(d) <= MaxStream
        /\ StdoutData(d)
        /\ stream' = stream \o d
        /\ injected' = injected \o stepInjected'
        /\ UNCHANGED lastCall

NextLines ==
    \/ ReadEvent
    \/ KeyTick
    \/ PauseClick

SpecLines == Init /\ [][NextLines]_vars

\* The indicator and the paste path: injectText applied to every kind of
\* text (none, blank, padded, plain) in every state the recording cycle, the
\* pause toggle, the settings window's focus and the indicator's timers
\* produce, next to the transcripts the worker writes.
InjectInputs == {<<>>, <<SP>>, <<"a">>, <<SP, "a", LF>>}

InjectCall ==
    \E text \in InjectInputs :
        /\ Commit(injectText(St, text), "inject")
        /\ KeepStream

NextUI ==
    \/ KeyTick
    \/ StopTimerFire
    \/ PauseClick
    \/ FocusApp
    \/ WorkerOutput
    \/ InjectCall
    \/ FadeTimerFire
    \/ HideTimerFire

SpecUI == Init /\ [][NextUI]_vars

\* The staged hide under the events that start it, interrupt it and finish
\* it, with the fairness the event loop gives its timers: a pending 150 ms or
\* 120 ms timer fires.
NextHide ==
    \/ KeyTick
    \/ StopTimerFire
    \/ WorkerOutput
    \/ FadeTimerFire
    \/ HideTimerFire

FairSpecHide ==
    /\ Init
    /\ [][NextHide]_vars
    /\ WF_vars(FadeTimerFire)
    /\ WF_vars(HideTimerFire)

\* transition called directly, with every requested state from every state
\* of the cycle, next to the key poll and the capture-error handler, which
\* call it themselves.
TransitionCall ==
    \E newState \in States :
        /\ Commit(transition(St, newState), "transition")
        /\ lastCall' = [fn |-> "transition",
                        arg |-> <<currentState, newState>>,
                        result |-> transition(St, newState).currentState]
        /\ UNCHANGED <<stream, injected>>

NextCycle ==
    \/ TransitionCall
    \/ KeyTick
    \/ CaptureError

SpecCycle == Init /\ [][NextCycle]_vars

\* float32ToInt16 called directly with every chunk of samples in and beyond
\* [-1, 1]; the function reads and writes no program state.
Samples == (-MaxAmplitude)..MaxAmplitude

Float32Call ==
    \E floatArray \in SeqsUpTo(Samples, MaxFrame) :
        /\ Commit(St, "float32ToInt16")
        /\ lastCall' = [fn |-> "float32ToInt16",
                        arg |-> floatArray,
                        result |-> float32ToInt16(floatArray)]
        /\ UNCHANGED <<stream, injected>>

NextConvert == Float32Call

SpecConvert == Init /\ [][NextConvert]_vars

\* ================================================================ claims

\* A step of the key poll that samples both keys held while the stop timer is
\* pending in state RECORDING.
ReengageBeforeFire ==
    /\ lastEvent' = "sample"
    /\ ctrlDown' /\ winDown'
    /\ stopTimer
    /\ currentState = RECORDING

\* The pending stop is gone and nothing of a stop has happened in the step.
StopCancelled ==
    /\ ~stopTimer'
    /\ currentState' = RECORDING
    /\ stepTrace' = <<>>
    /\ ~Has(stepOut', "signal:END")
    /\ ~Has(stepOut', "stop-capture")

\* C1 as stated: a re-engage sample taken before the stop timer fires cancels
\* the pending stop, for every interleaving, pause toggles included.
C1_Original == [][ReengageBeforeFire => StopCancelled]_vars

\* C1 as amended: a re-engage sample taken while not paused, before the stop
\* timer fires, cancels the pending stop (no STOPPING, no END, no stop-capture,
\* state stays RECORDING); and the effects of a stop occur only in a step of
\* the stop timer, which needs the timer pending.
C1_ReengageCancelsStop ==
    /\ [][(ReengageBeforeFire /\ ~isPaused) => StopCancelled]_vars
    /\ [][(\/ Has(stepTrace', STOPPING)
           \/ Has(stepOut', "signal:END")
           \/ Has(stepOut', "stop-capture"))
          => (stopTimer /\ lastEvent' = "stop-timer")]_vars

C1_Witness ==
    /\ lastEvent = "sample"
    /\ stepOut = <<"clearTimeout">>
    /\ ctrlDown /\ winDown
    /\ currentState = RECORDING
    /\ ~stopTimer

\* C2: after the capture-error handler has run the recording state is IDLE
\* (it was IDLE before, or the handler reset it).
C2_CaptureErrorResets == lastEvent = "capture-error" => currentState = IDLE

\* C3: no step brings the recording state to RECORDING while paused.
C3_NoStartWhilePaused ==
    [][(\/ Has(stepTrace', RECORDING)
        \/ (currentState # RECORDING /\ currentState' = RECORDING))
       => (~isPaused /\ ~isPaused')]_vars

C3_Witness ==
    /\ isPaused
    /\ lastEvent = "sample"
    /\ ctrlDown /\ winDown
    /\ currentState = IDLE

\* C4: if from some point on the system is not paused and no sample has both
\* keys held, the state ends in IDLE for good; and every firing of the stop
\* timer takes the state through STOPPING, FINALIZING, IDLE once, with one END.
C4_ReleaseLeadsToIdle ==
    /\ (<>[](~isPaused /\ ~(ctrlDown /\ winDown)))
          => <>[](currentState = IDLE)
    /\ [][lastEvent' = "stop-timer"
          => (/\ currentState = RECORDING
              /\ stepTrace' = <<STOPPING, FINALIZING, IDLE>>
              /\ Count(stepOut', "signal:END") = 1
              /\ ~stopTimer')]_vars

C4_Witness ==
    /\ lastEvent = "stop-timer"
    /\ stepTrace = <<STOPPING, FINALIZING, IDLE>>
    /\ currentState = IDLE
    /\ ~isPaused
    /\ ~(ctrlDown /\ winDown)

\* C5: START and END signalled by the state machine alternate, beginning with
\* START: a step signals at most one control frame, a START only after none
\* or an END, an END only after a START; every IDLE-to-RECORDING transition
\* signals one START and every stop one END; the state is RECORDING exactly
\* while the frame signalled last is START.
C5_StartEndAlternate ==
    /\ [](currentState = RECORDING <=> lastSignal = "START")
    /\ [][LET starts == Count(stepOut', "signal:START")
              ends == Count(stepOut', "signal:END")
          IN /\ starts + ends <= 1
             /\ starts = 1 => (lastSignal \in {"NONE", "END"}
                               /\ lastSignal' = "START")
             /\ ends = 1 => (lastSignal = "START" /\ lastSignal' = "END")
             /\ starts + ends = 0 => lastSignal' = lastSignal
             /\ Has(stepTrace', RECORDING) => starts = 1
             /\ Has(stepTrace', STOPPING) => ends = 1]_vars

\* A second engagement: START is signalled while an indicator timer of an
\* earlier stop is still pending.
C5_Witness ==
    /\ lastEvent = "sample"
    /\ Has(stepOut, "signal:START")
    /\ lastSignal = "START"
    /\ fadeTimers + hideTimers > 0

\* C6: an AUDIO frame is written only in a step of 'audio-data' taken in state
\* RECORDING, after START was signalled and before END; a chunk that arrives
\* in any other state leaves the worker's input unchanged.
C6_AudioOnlyWhileRecording ==
    /\ [][Has(stepOut', "write:AUDIO")
          => (/\ lastEvent' = "audio-data"
              /\ currentState = RECORDING
              /\ lastSignal = "START")]_vars
    /\ [][(lastEvent' = "audio-data" /\ currentState # RECORDING)
          => (workerIn' = workerIn /\ stepOut' = <<>>)]_vars
    /\ [][(workerIn' # workerIn /\ workerIn' # <<>>
           /\ workerIn'[Len(workerIn')].tag = TAG_AUDIO)
          => Has(stepOut', "write:AUDIO")]_vars

C6_Witness ==
    /\ lastEvent = "audio-data"
    /\ currentState = IDLE
    /\ asrProcess = "live"
    /\ lastSignal = "END"
    /\ stepOut = <<>>

\* C7 as stated: once a worker was started, a worker is live or a respawn is
\* pending.
C7_Original == everSpawned => (procAlive > 0 \/ respawnTimers > 0)

\* C7 as amended: every close schedules exactly one respawn attempt and drops
\* the handle, for the first exit and for every later one; at most one child
\* or respawn attempt exists at a time; and the worker subsystem loses both
\* only in a respawn attempt that spawns no child.
C7_RespawnPerExit ==
    /\ [][lastEvent' = "close"
          => (/\ respawnTimers' = respawnTimers + 1
              /\ procAlive' = procAlive - 1
              /\ asrProcess' = "null")]_vars
    /\ [](procAlive + respawnTimers <= 1)
    /\ [][(procAlive + respawnTimers > 0 /\ procAlive' + respawnTimers' = 0)
          => lastEvent' = "respawn"]_vars

\* A child has closed: its respawn is pending and the handle is gone.
C7_Witness ==
    /\ lastEvent = "close"
    /\ respawnTimers = 1
    /\ procAlive = 0
    /\ asrProcess = "null"

\* C8: at most one child exists and the handle, when set, refers to it; a
\* step taken with the handle absent writes nothing; a spawned child starts
\* with an empty input.
C8_OneWorkerNoQueue ==
    /\ [](/\ procAlive \in {0, 1}
          /\ asrProcess = "live" => procAlive = 1)
    /\ [][(asrProcess = "null" /\ lastEvent' # "respawn")
          => (/\ workerIn' = workerIn
              /\ ~Has(stepOut', "write:START")
              /\ ~Has(stepOut', "write:AUDIO")
              /\ ~Has(stepOut', "write:END"))]_vars
    /\ [][(lastEvent' = "respawn" /\ asrProcess' = "live")
          => (workerIn' = <<>> /\ stepOut' = <<>>)]_vars

\* A START signalled after the child closed and before its respawn: dropped.
C8_Witness ==
    /\ lastEvent = "sample"
    /\ Has(stepOut, "signal:START")
    /\ ~Has(stepOut, "write:START")
    /\ everSpawned
    /\ asrProcess = "null"
    /\ respawnTimers = 1

\* The transcript lines of a stream: its lines, trimmed, without the empty
\* ones and the sentinel.
TranscriptLines(str) ==
    LET lines == SplitLines(str, <<>>)
        trimmed == [i \in 1..Len(lines) |-> Trim(lines[i])]
    IN SelectSeq(trimmed, LAMBDA l : l # <<>> /\ l # TRANSCRIBED_FINISH)

\* C9: whenever the stream read so far ends a line, the texts passed to
\* injection are the transcript lines of the stream, in order, each once and
\* whole, however the stream was cut into read events.
C9_LinesInjectedWhole ==
    (stream = <<>> \/ stream[Len(stream)] = LF)
        => injected = TranscriptLines(stream)

\* C10 as stated: no step taken while paused changes the recording state.
C10_Original == [][isPaused => currentState' = currentState]_vars

\* C10 as amended: a key sample taken while paused changes neither the
\* recording state nor the stop timer and sends nothing, whatever the keys;
\* the only step that changes the recording state while paused is the firing
\* of a stop timer armed before the pause.
C10_PausedSampleIgnored ==
    /\ [][(isPaused /\ lastEvent' = "sample")
          => (/\ currentState' = currentState
              /\ stopTimer' = stopTimer
              /\ stepOut' = <<>>
              /\ stepTrace' = <<>>)]_vars
    /\ [][(isPaused /\ currentState' # currentState)
          => (lastEvent' = "stop-timer" /\ stopTimer)]_vars

C10_Witness ==
    /\ isPaused
    /\ lastEvent = "sample"
    /\ ~ctrlDown
    /\ currentState = RECORDING
    /\ ~stopTimer

\* C11 as stated: once the system stays paused and no sample has both keys
\* held, the state ends in IDLE with END signalled last.
C11_Original ==
    (<>[](isPaused /\ ~(ctrlDown /\ winDown)))
        => <>[](currentState = IDLE /\ lastSignal # "START")

\* C11 as amended: a stop timer that is pending when the system is paused
\* fires while the pause lasts and brings the state to IDLE with END signalled;
\* a recording whose stop timer is not pending stays in RECORDING, with no
\* timer armed, for as long as the pause lasts.
C11_PauseKeepsArmedStop ==
    /\ (stopTimer /\ isPaused)
          ~> ((currentState = IDLE /\ lastSignal = "END") \/ ~isPaused)
    /\ [][(isPaused /\ isPaused' /\ currentState = RECORDING /\ ~stopTimer)
          => (currentState' = RECORDING /\ ~stopTimer'
              /\ lastSignal' = "START")]_vars

C11_Witness ==
    /\ isPaused
    /\ lastEvent = "stop-timer"
    /\ currentState = IDLE
    /\ lastSignal = "END"

\* C12: between events the state is IDLE or RECORDING, and the step in which
\* the stop timer fires passes through STOPPING and FINALIZING and ends in
\* IDLE by itself, injecting nothing and whatever the worker has or has not
\* written.
C12_StopCompletesInOneStep ==
    /\ currentState \in {IDLE, RECORDING}
    /\ lastEvent = "stop-timer"
          => /\ currentState = IDLE
             /\ stepTrace = <<STOPPING, FINALIZING, IDLE>>
             /\ stepInjected = <<>>

\* A stop completed with no worker at all: no transcript can ever arrive.
C12_Witness ==
    /\ lastEvent = "stop-timer"
    /\ currentState = IDLE
    /\ asrProcess = "null"
    /\ procAlive = 0
    /\ injected = <<>>

\* C13: injectText called while paused, or with a text that is empty or all
\* whitespace, changes no program variable (clipboard, focus, indicator
\* visibility and timers included) and sends nothing; the same holds for a
\* whole read event of the worker's stdout while paused.  A paste happens only
\* in the step that hands injectText its text, so nothing is kept for later.
C13_InjectNoOp ==
    [][/\ (/\ lastEvent' \in {"inject", "stdout"}
           /\ \/ isPaused
              \/ \A i \in 1..Len(stepInjected') : Trim(stepInjected'[i]) = <<>>)
          => /\ UNCHANGED <<clipboard, appFocused, indicatorVisible,
                            fadeTimers, hideTimers, firstRunShown,
                            currentState, stopTimer, isPaused, asrProcess,
                            procAlive, respawnTimers, workerIn, lastSignal,
                            chunks>>
             /\ stepOut' = <<>>
       /\ Has(stepOut', "paste")
          => /\ lastEvent' \in {"inject", "stdout"}
             /\ ~isPaused
             /\ clipboard' # <<>>
             /\ \E i \in 1..Len(stepInjected') :
                   clipboard' = Trim(stepInjected'[i])]_vars

\* A text handed to injectText while paused, with the indicator visible and
\* an application window focused, and nothing done.
C13_Witness ==
    /\ lastEvent = "inject"
    /\ isPaused
    /\ stepInjected = << <<"a">> >>
    /\ indicatorVisible
    /\ appFocused
    /\ clipboard = <<>>
    /\ stepOut = <<>>

\* The chunk the renderer posts as the k-th of a recording, converted.
ChunkPcm(k) == float32ToInt16(CHOOSE d \in AudioInputs(k - 1) : TRUE)

\* C14: while the state is RECORDING and the worker handle has been live since
\* the START of the engagement, the worker's input is START followed by one
\* AUDIO frame per chunk that arrived in RECORDING, in arrival order, each
\* carrying that chunk's samples; a chunk is written once in its own step.
C14_AudioFramesAreTheChunks ==
    /\ (/\ currentState = RECORDING
        /\ asrProcess = "live"
        /\ workerIn # <<>>
        /\ workerIn[1].tag = TAG_START)
          => /\ Len(workerIn) = chunks + 1
             /\ \A k \in 1..chunks :
                   workerIn[k + 1] = Frame(TAG_AUDIO, ChunkPcm(k), k)
    /\ Count(stepOut, "write:AUDIO") <= 1
    /\ (lastEvent = "audio-data" /\ Has(stepOut, "write:AUDIO"))
          => /\ chunks >= 1
             /\ workerIn # <<>>
             /\ workerIn[Len(workerIn)] = Frame(TAG_AUDIO, ChunkPcm(chunks), chunks)

\* Two chunks forwarded in one engagement.
C14_Witness ==
    /\ lastEvent = "audio-data"
    /\ currentState = RECORDING
    /\ asrProcess = "live"
    /\ chunks = 2
    /\ Len(workerIn) = 3
    /\ workerIn[2].payload # workerIn[3].payload

\* C15: float32ToInt16 keeps the length of its input; 1.0 gives 32767 and
\* -1.0 gives -32768; a sample above 1.0 gives what 1.0 gives and a sample
\* below -1.0 what -1.0 gives; every output is a signed 16-bit integer.
\* (Samples are counted in halves: 2 is 1.0.)
C15_Float32ToInt16Range ==
    lastCall.fn = "float32ToInt16"
       => /\ Len(lastCall.result) = Len(lastCall.arg)
          /\ \A i \in 1..Len(lastCall.arg) :
                LET x == lastCall.arg[i]
                    y == lastCall.result[i]
                IN /\ y \in (-32768)..32767
                   /\ x >= 2 => y = 32767
                   /\ x <= -2 => y = -32768
                   /\ (x > -2 /\ x < 2) => (y > -32768 /\ y < 32767)

\* A chunk holding 1.5 and -1.5.
C15_Witness ==
    /\ lastCall.fn = "float32ToInt16"
    /\ lastCall.arg = <<3, -3>>
    /\ lastCall.result = <<32767, -32768>>

\* The successor of each state in the cycle.
CycleNext ==
    [x \in States |->
        IF x = IDLE THEN RECORDING
        ELSE IF x = RECORDING THEN STOPPING
        ELSE IF x = STOPPING THEN FINALIZING
        ELSE IDLE]

\* C16: a direct call transition(newState) moves to newState when newState is
\* the successor of the current state in the cycle, and otherwise (the current
\* state included) changes nothing at all; and in every step of every
\* callback each value the state takes is the cycle's successor of the one
\* before.
C16_TransitionFollowsCycle ==
    [][/\ LET path == <<currentState>> \o stepTrace'
          IN /\ \A i \in 1..Len(stepTrace') : path[i + 1] = CycleNext[path[i]]
             /\ currentState' = path[Len(path)]
       /\ lastEvent' = "transition"
          => LET newState == lastCall'.arg[2]
             IN /\ lastCall'.arg[1] = currentState
                /\ lastCall'.result = currentState'
                /\ IF newState = CycleNext[currentState]
                   THEN currentState' = newState /\ stepTrace' = <<newState>>
                   ELSE currentState' = currentState /\ stepTrace' = <<>>
                /\ stepOut' = <<>>
                /\ UNCHANGED <<stopTimer, isPaused, asrProcess, workerIn,
                               indicatorVisible, fadeTimers, hideTimers,
                               lastSignal, chunks>>]_vars

\* A request refused: IDLE asked for while RECORDING.
C16_Witness ==
    /\ lastEvent = "transition"
    /\ lastCall.arg = <<RECORDING, IDLE>>
    /\ lastCall.result = RECORDING
    /\ currentState = RECORDING
    /\ stepTrace = <<>>

\* C17 as stated: every 150 ms timer of a staged hide sends fade-out when it
\* fires.
C17_Original ==
    [][lastEvent' = "fade-timer" => Has(stepOut', "fade-out")]_vars

\* C17 as amended: a stop on a visible indicator sends 'stopping' first and
\* only schedules the 150 ms timer; that timer sends fade-out and schedules the
\* 120 ms timer if the indicator is still visible when it fires, and does
\* nothing otherwise; the 120 ms timer hides; fade-out and hide of the staged
\* sequence are sent by those timers only; an injection hides a visible
\* indicator in its own step, sending neither 'stopping' nor fade-out and
\* touching no timer; and after 'stopping' the indicator is eventually hidden
\* unless it is shown again.
C17_StagedHide ==
    /\ [][(lastEvent' = "stop-timer" /\ indicatorVisible)
          => /\ stepOut'[1] = "set-state:stopping"
             /\ ~Has(stepOut', "fade-out") /\ ~Has(stepOut', "hide")
             /\ indicatorVisible'
             /\ fadeTimers' = fadeTimers + 1 /\ hideTimers' = hideTimers]_vars
    /\ [][lastEvent' = "fade-timer"
          => /\ fadeTimers' = fadeTimers - 1
             /\ indicatorVisible' = indicatorVisible
             /\ IF indicatorVisible
                THEN stepOut' = <<"fade-out">> /\ hideTimers' = hideTimers + 1
                ELSE stepOut' = <<>> /\ hideTimers' = hideTimers]_vars
    /\ [][lastEvent' = "hide-timer"
          => /\ hideTimers' = hideTimers - 1
             /\ ~indicatorVisible'
             /\ stepOut' = <<"hide">>]_vars
    /\ [][/\ fadeTimers' > fadeTimers => Has(stepOut', "set-state:stopping")
          /\ hideTimers' > hideTimers => Has(stepOut', "fade-out")
          /\ Has(stepOut', "fade-out") => lastEvent' = "fade-timer"]_vars
    /\ [][(lastEvent' = "stdout" /\ Has(stepOut', "paste") /\ indicatorVisible)
          => /\ stepOut'[1] = "hide"
             /\ ~indicatorVisible'
             /\ ~Has(stepOut', "set-state:stopping")
             /\ ~Has(stepOut', "fade-out")
             /\ fadeTimers' = fadeTimers /\ hideTimers' = hideTimers]_vars
    /\ Has(stepOut, "set-state:stopping")
          ~> (~indicatorVisible \/ Has(stepOut, "set-state:listening"))

\* A staged hide cut short: the transcript was injected before the 150 ms
\* timer fired, which then found the indicator hidden.
C17_Witness ==
    /\ lastEvent = "fade-timer"
    /\ ~indicatorVisible
    /\ stepOut = <<>>
    /\ hideTimers = 0
    /\ clipboard # <<>>

\* C18: the frames the current worker instance has received, from its last
\* START on or from its spawn on, are empty or begin with START, followed by
\* AUDIO frames and at most one END, which comes last.
C18_FramesWellFormed ==
    workerIn # <<>>
       => /\ workerIn[1].tag = TAG_START
          /\ \A i \in 2..Len(workerIn) :
                \/ workerIn[i].tag = TAG_AUDIO
                \/ workerIn[i].tag = TAG_END /\ i = Len(workerIn)

\* C19: whenever the state is RECORDING the indicator is visible.
C19_VisibleWhileRecording == currentState = RECORDING => indicatorVisible

\* C20: a stop timer is scheduled only when none is pending, and a pending one
\* goes away only by firing or by clearTimeout, so at most one is outstanding;
\* it is pending only in state RECORDING; and the step in which it fires
\* starts in RECORDING after a START, runs STOPPING, FINALIZING, IDLE and
\* signals exactly one END.
C20_OneStopTimerWhileRecording ==
    /\ [](stopTimer => (currentState = RECORDING /\ lastSignal = "START"))
    /\ [][/\ Count(stepOut', "setTimeout") <= 1
          /\ Has(stepOut', "setTimeout")
             => (~stopTimer /\ stopTimer' /\ currentState = RECORDING)
          /\ (~stopTimer /\ stopTimer') => Has(stepOut', "setTimeout")
          /\ (stopTimer /\ ~stopTimer')
             => (lastEvent' = "stop-timer" \/ Has(stepOut', "clearTimeout"))
          /\ lastEvent' = "stop-timer"
             => /\ stopTimer /\ ~stopTimer'
                /\ currentState = RECORDING
                /\ lastSignal = "START"
                /\ stepTrace' = <<STOPPING, FINALIZING, IDLE>>
                /\ Count(stepOut', "signal:END") = 1]_vars

\* The timer armed by a released sample in a second engagement.
C20_Witness ==
    /\ lastEvent = "sample"
    /\ stopTimer
    /\ Has(stepOut, "setTimeout")
    /\ currentState = RECORDING
    /\ fadeTimers + hideTimers > 0

====
